---- MODULE Spec2Model ----
(***************************************************************************)
(* Model of generate-readmes.py: analyze_folder, generate_readme_content   *)
(* and main (discovery walk, depth-ordered generation, summary).           *)
(*                                                                         *)
(* Representation of text.  A Python str is a sequence of chunks; a chunk  *)
(* is a TLA+ string.  Folder and file names are written one character per  *)
(* chunk, so that suffix, endswith(), sorted() and title() are computed    *)
(* character by character.  Static template text is one chunk per piece.   *)
(* Characters a TLA+ string cannot hold (the emoji and the backquote of    *)
(* the template) are written as their code points, "[U+1F4C1]".            *)
(***************************************************************************)
EXTENDS Integers, Sequences, FiniteSets, TLC

(***************************************************************************)
(* Bounds of the model                                                     *)
(***************************************************************************)
MaxRuns == 2
MaxFaults == 2

(***************************************************************************)
(* Characters                                                              *)
(***************************************************************************)
LowerChars == <<"a","b","c","d","e","f","g","h","i","j","k","l","m",
                "n","o","p","q","r","s","t","u","v","w","x","y","z">>
UpperChars == <<"A","B","C","D","E","F","G","H","I","J","K","L","M",
                "N","O","P","Q","R","S","T","U","V","W","X","Y","Z">>
DigitChars == <<"0","1","2","3","4","5","6","7","8","9">>

\* code point order of the characters that occur in names
Alphabet == <<".">> \o DigitChars \o UpperChars \o <<"_">> \o LowerChars

Ord(c) == CHOOSE i \in 1..Len(Alphabet) : Alphabet[i] = c

IsLower(c) == \E i \in 1..26 : LowerChars[i] = c
IsUpper(c) == \E i \in 1..26 : UpperChars[i] = c
ToUpper(c) == IF IsLower(c) THEN UpperChars[CHOOSE i \in 1..26 : LowerChars[i] = c] ELSE c
ToLower(c) == IF IsUpper(c) THEN LowerChars[CHOOSE i \in 1..26 : UpperChars[i] = c] ELSE c

\* str.title(): first cased character of every run of cased characters is
\* upper-cased, the others are lower-cased; uncased characters end a run
RECURSIVE TitleFrom(_, _, _)
TitleFrom(s, i, prevCased) ==
    IF i > Len(s) THEN <<>>
    ELSE LET c == s[i] IN
         IF IsLower(c) \/ IsUpper(c)
         THEN <<IF prevCased THEN ToLower(c) ELSE ToUpper(c)>> \o TitleFrom(s, i + 1, TRUE)
         ELSE <<c>> \o TitleFrom(s, i + 1, FALSE)

Title(s) == TitleFrom(s, 1, FALSE)

\* str.endswith(suf)
EndsWith(s, suf) ==
    /\ Len(s) >= Len(suf)
    /\ SubSeq(s, Len(s) - Len(suf) + 1, Len(s)) = suf

\* PurePath.suffix: from the last dot, unless the dot is first or last
Suffix(name) ==
    LET dots == {i \in 1..Len(name) : name[i] = "."} IN
    IF dots = {} THEN <<>>
    ELSE LET i == CHOOSE k \in dots : \A j \in dots : j <= k IN
         IF 1 < i /\ i < Len(name) THEN SubSeq(name, i, Len(name)) ELSE <<>>

\* str < str, by code point
RECURSIVE StrLess(_, _)
StrLess(a, b) ==
    IF b = <<>> THEN FALSE
    ELSE IF a = <<>> THEN TRUE
    ELSE IF a[1] = b[1] THEN StrLess(Tail(a), Tail(b))
    ELSE Ord(a[1]) < Ord(b[1])

\* sorted(list of names)
RECURSIVE SortedNames(_)
SortedNames(S) ==
    IF S = {} THEN <<>>
    ELSE LET m == CHOOSE x \in S : \A y \in S \ {x} : StrLess(x, y) IN
         <<m>> \o SortedNames(S \ {m})

\* f'{n}' for a non-negative int
RECURSIVE IntToStr(_)
IntToStr(n) ==
    IF n < 10 THEN <<DigitChars[n + 1]>>
    ELSE IntToStr(n \div 10) \o <<DigitChars[(n % 10) + 1]>>

Range(s) == {s[i] : i \in 1..Len(s)}

Perms(S) == {p \in [1..Cardinality(S) -> S] : \A i, j \in 1..Cardinality(S) : p[i] = p[j] => i = j}

\* '\n'.join(lines)
RECURSIVE JoinFrom(_, _)
JoinFrom(lines, i) ==
    IF i > Len(lines) THEN <<>>
    ELSE IF i = Len(lines) THEN lines[i]
    ELSE lines[i] \o <<"\n">> \o JoinFrom(lines, i + 1)

Join(lines) == JoinFrom(lines, 1)

\* text.split('\n'): the lines of a text, used to read documents back
RECURSIVE SplitFrom(_, _, _)
SplitFrom(text, i, cur) ==
    IF i > Len(text) THEN <<cur>>
    ELSE IF text[i] = "\n" THEN <<cur>> \o SplitFrom(text, i + 1, <<>>)
    ELSE SplitFrom(text, i + 1, Append(cur, text[i]))

SplitLines(text) == SplitFrom(text, 1, <<>>)

(***************************************************************************)
(* Names and the file system the run starts on                             *)
(***************************************************************************)
n_src == <<"s","r","c">>
n_agent == <<"a","g","e","n","t">>
n_Tools == <<"T","o","o","l","s">>
n_my_lib == <<"m","y","_","l","i","b">>
n_git == <<".","g","i","t">>
n_README == <<"R","E","A","D","M","E",".","m","d">>

f_a_ts == <<"a",".","t","s">>
f_b_tsx == <<"b",".","t","s","x">>
f_c_js == <<"c",".","j","s">>
f_d_jsx == <<"d",".","j","s","x">>
f_e_json == <<"e",".","j","s","o","n">>
f_f_md == <<"f",".","m","d">>
f_dot_ts == <<".","t","s">>
f_HEAD == <<"H","E","A","D">>

\* main(): project_root and src_path; a path is the sequence of its parts.
\* The parts above src are never inspected character by character.
project_root == << <<"/">>, <<"Users">>, <<"orlandoascanio">>, <<"Desktop">>,
                   <<"PersonalOpenClawVersion">> >>
src_path == Append(project_root, n_src)

\* the directories under src_path
Dirs == { src_path,
          src_path \o <<n_agent>>,
          src_path \o <<n_agent, n_Tools>>,
          src_path \o <<n_my_lib>>,
          src_path \o <<n_git>> }

\* the regular files of each directory, other than README.md
StaticFiles(p) ==
    IF p = src_path \o <<n_agent>> THEN {f_a_ts, f_b_tsx}
    ELSE IF p = src_path \o <<n_my_lib>> THEN {f_c_js, f_d_jsx, f_e_json}
    ELSE IF p = src_path \o <<n_git>> THEN {f_HEAD, f_f_md}
    ELSE IF p = src_path \o <<n_agent, n_Tools>> THEN {f_dot_ts}
    ELSE {}

\* number of newline-terminated lines of a file
LinesOf(name) ==
    IF name = f_a_ts THEN 40
    ELSE IF name = f_b_tsx THEN 3
    ELSE 1

\* a README.md: absent, or present with its text
NoFile == [exists |-> FALSE, text |-> <<>>]
File(t) == [exists |-> TRUE, text |-> t]
PreExisting == File(<<"(content written before the run)">>)

\* Path.name, Path.parent, len(Path.parts)
Name(p) == p[Len(p)]
Parent(p) == SubSeq(p, 1, Len(p) - 1)
Depth(p) == Len(p)

Children(p) == {q \in Dirs : Len(q) = Len(p) + 1 /\ Parent(q) = p}
IsAncestor(a, d) == Len(a) < Len(d) /\ SubSeq(d, 1, Len(a)) = a

(***************************************************************************)
(* analyze_folder                                                          *)
(***************************************************************************)
ExcludedDirs == { <<"n","o","d","e","_","m","o","d","u","l","e","s">>,
                  <<".","g","i","t">>,
                  <<"_","_","p","y","c","a","c","h","e","_","_">> }

s_ts == <<".","t","s">>
s_tsx == <<".","t","s","x">>
s_js == <<".","j","s">>
s_jsx == <<".","j","s","x">>
s_json == <<".","j","s","o","n">>
s_md == <<".","m","d">>

\* the suffixes whose files are opened and line-counted
CountedSuffix(name) == Suffix(name) \in {s_ts, s_tsx}

\* The entries folder_path.iterdir() yields, in the order [U+0060]entries[U+0060] gives
\* them; each entry is [name, kind].  badReads are the files whose open or
\* readlines() raises, for which 0 is recorded.
AnalyzeFolder(folder_path, entries, badReads) ==
    LET isFile(i) == entries[i].kind = "file"
        isSub(i) == entries[i].kind = "dir" /\ entries[i].name \notin ExcludedDirs
        fileNames == {entries[i].name : i \in {k \in 1..Len(entries) : isFile(k)}}
        pick(e) == e.kind = "file"
        sub(e) == e.kind = "dir" /\ e.name \notin ExcludedDirs
        fileSeq == SelectSeq(entries, pick)
        subSeq == SelectSeq(entries, sub)
    IN [ path |-> folder_path,
         name |-> Name(folder_path),
         files |-> [i \in 1..Len(fileSeq) |-> fileSeq[i].name],
         subfolders |-> [i \in 1..Len(subSeq) |-> subSeq[i].name],
         line_counts |-> [n \in {f \in fileNames : CountedSuffix(f)} |->
                            IF n \in badReads THEN 0 ELSE LinesOf(n)],
         has_typescript |-> \E f \in fileNames : Suffix(f) \in {s_ts, s_tsx},
         has_javascript |-> \E f \in fileNames : Suffix(f) \in {s_js, s_jsx},
         has_json |-> \E f \in fileNames : Suffix(f) = s_json,
         has_markdown |-> \E f \in fileNames : Suffix(f) = s_md ]

\* the files analyze_folder opens for reading
OpenedFiles(entries) ==
    {entries[i].name : i \in {k \in 1..Len(entries) :
                                entries[k].kind = "file" /\ CountedSuffix(entries[k].name)}}

(***************************************************************************)
(* generate_readme_content                                                 *)
(***************************************************************************)
PurposeKeys == { n_agent,
                 <<"m","e","m","o","r","y">>,
                 <<"c","l","i">>,
                 <<"g","a","t","e","w","a","y">>,
                 <<"t","o","o","l","s">>,
                 <<"u","t","i","l","s">>,
                 <<"t","y","p","e","s">>,
                 <<"p","l","u","g","i","n","s">>,
                 <<"p","r","o","t","o","c","o","l">>,
                 <<"s","t","o","r","a","g","e">>,
                 <<"w","e","b">>,
                 <<"s","h","a","d","o","w">>,
                 <<"s","u","b","a","g","e","n","t","s">>,
                 <<"c","o","n","f","i","g">> }

purpose_map(key) ==
    IF key = n_agent THEN <<"AI Agent System">>
    ELSE IF key = <<"m","e","m","o","r","y">> THEN <<"Memory Management System">>
    ELSE IF key = <<"c","l","i">> THEN <<"Command-Line Interface">>
    ELSE IF key = <<"g","a","t","e","w","a","y">> THEN <<"Main Gateway/Server">>
    ELSE IF key = <<"t","o","o","l","s">> THEN <<"Tool Definitions and Implementations">>
    ELSE IF key = <<"u","t","i","l","s">> THEN <<"Utility Functions">>
    ELSE IF key = <<"t","y","p","e","s">> THEN <<"TypeScript Type Definitions">>
    ELSE IF key = <<"p","l","u","g","i","n","s">> THEN <<"Plugin System">>
    ELSE IF key = <<"p","r","o","t","o","c","o","l">> THEN <<"Communication Protocols">>
    ELSE IF key = <<"s","t","o","r","a","g","e">> THEN <<"Data Storage and Persistence">>
    ELSE IF key = <<"w","e","b">> THEN <<"Web Interface/Dashboard">>
    ELSE IF key = <<"s","h","a","d","o","w">> THEN <<"Shadow/Parallel Execution System">>
    ELSE IF key = <<"s","u","b","a","g","e","n","t","s">> THEN <<"Sub-agent Management">>
    ELSE <<"Configuration Management">>

LowerCase(s) == [i \in 1..Len(s) |-> ToLower(s[i])]

\* a lookup that lower-cases the folder name first
PurposeIgnoringCase(folder_name) ==
    IF LowerCase(folder_name) \in PurposeKeys THEN purpose_map(LowerCase(folder_name))
    ELSE Title(folder_name) \o <<" Module">>

\* purpose_map.get(folder_name, f'{folder_name.title()} Module')
Purpose(folder_name) ==
    IF folder_name \in PurposeKeys THEN purpose_map(folder_name)
    ELSE Title(folder_name) \o <<" Module">>

TitleLine(folder_name, purpose) ==
    <<"# [U+1F4C1] ">> \o folder_name \o <<"/ - ">> \o purpose

KeyFilesHeading == <<"## [U+1F4C4] Key Files">>
CountedLine(file, count) ==
    <<"- [U+0060]">> \o file \o <<"[U+0060] - (">> \o IntToStr(count) \o <<" lines) [Description]">>
PlaceholderLine(file) == <<"- [U+0060]">> \o file \o <<"[U+0060] - [Description]">>

\* the line of one file in the Key Files section, <<>> when it has none
KeyFileEntry(file, line_counts) ==
    IF EndsWith(file, s_ts) /\ file \in DOMAIN line_counts
    THEN <<CountedLine(file, line_counts[file])>>
    ELSE IF EndsWith(file, s_ts) \/ EndsWith(file, s_js)
            \/ EndsWith(file, s_json) \/ EndsWith(file, s_md)
    THEN <<PlaceholderLine(file)>>
    ELSE <<>>

RECURSIVE KeyFileEntries(_, _, _)
KeyFileEntries(sorted, i, line_counts) ==
    IF i > Len(sorted) THEN <<>>
    ELSE KeyFileEntry(sorted[i], line_counts) \o KeyFileEntries(sorted, i + 1, line_counts)

KeyFilesSection(folder_info) ==
    IF folder_info.files # <<>>
    THEN <<KeyFilesHeading>>
         \o KeyFileEntries(SortedNames(Range(folder_info.files)), 1, folder_info.line_counts)
         \o << <<>> >>
    ELSE <<>>

SubfoldersHeading == <<"## [U+1F4C1] Subfolders">>
SubfolderLine(sub) == <<"- [U+0060]">> \o sub \o <<"/[U+0060] - [Purpose]">>

SubfoldersSection(folder_info) ==
    IF folder_info.subfolders # <<>>
    THEN LET sorted == SortedNames(Range(folder_info.subfolders)) IN
         <<SubfoldersHeading>>
         \o [i \in 1..Len(sorted) |-> SubfolderLine(sorted[i])]
         \o << <<>> >>
    ELSE <<>>

StaticSections ==
    << <<"## [U+26A0] Important Constraints">>,
       <<"- [Add important technical constraints or requirements]">>,
       <<"- [Add rate limits, API constraints, etc.]">>,
       <<>>,
       <<"## [U+1F50C] Public Interfaces">>,
       <<"- [U+0060][ClassNameOrFunction][U+0060] - [Purpose]">>,
       <<>>,
       <<"## [U+1F504] Integration Points">>,
       <<"- **Connected to**: [Other modules this interacts with]">>,
       <<"- **Used by**: [Who consumes this module]">>,
       <<>>,
       <<"## [U+1F6A8] Common Issues & Fixes">>,
       <<"1. **[Common error]**: [Solution]">>,
       <<"2. **[Performance issue]**: [Optimization]">>,
       <<>> >>

\* parent_info: None, or {'name': ...}
NoParent == [given |-> FALSE, name |-> <<>>]
ParentNamed(n) == [given |-> TRUE, name |-> n]

RelatedHeading == <<"## [U+1F4DA] Related Documentation">>
RelatedLink(parent_name) == <<"- See [U+0060]../README.md[U+0060] for ">> \o parent_name \o <<" overview">>

\* a Related Documentation section that names a parent in every case
RelatedSectionAlwaysLinked(parent_info) ==
    <<RelatedHeading, RelatedLink(parent_info.name)>>

RelatedSection(parent_info) ==
    <<RelatedHeading>>
    \o (IF parent_info.given THEN <<RelatedLink(parent_info.name)>> ELSE <<>>)

Footer ==
    << <<>>,
       <<"---">>,
       <<"*This README was auto-generated. Please update with specific details about this module.*">> >>

GenerateReadmeContent(folder_info, parent_info) ==
    Join( << TitleLine(folder_info.name, Purpose(folder_info.name)),
             <<>>,
             <<"## [U+1F3AF] What This Folder Does">>,
             <<"[Brief description of what this module does within Talon AI Assistant]">>,
             <<>> >>
          \o KeyFilesSection(folder_info)
          \o SubfoldersSection(folder_info)
          \o StaticSections
          \o RelatedSection(parent_info)
          \o Footer )

(***************************************************************************)
(* main: state                                                             *)
(***************************************************************************)
VARIABLES
    rootExists,          \* whether src_path exists
    fs_readme,           \* the README.md of every directory under src_path
    run,                 \* number of the current run of main()
    pc,                  \* position of main(): start, walk, generate, done, raised
    stack,               \* os.walk: directories still to be yielded
    folders_to_process,  \* the list discovery builds
    queue,               \* sorted(folders_to_process, key=len(parts))
    idx,                 \* position of the generation loop in queue
    log,                 \* the lines printed by this run
    faults,              \* failures the environment has produced so far
    readme0,             \* history: fs_readme when this run started
    prevExit,            \* history: how the run before this one ended
    trace,               \* history: what the generation loop did, in order
    analysis,            \* history: what analyze_folder returned, per folder
    opened               \* history: files whose content this run read

vars == <<rootExists, fs_readme, run, pc, stack, folders_to_process, queue, idx,
          log, faults, readme0, prevExit, trace, analysis, opened>>

NoAnalysis == [done |-> FALSE, files |-> {}, line_counts |-> <<>>]

Line(kind, path, n) == [kind |-> kind, path |-> path, n |-> n]
Event(kind, folder) == [kind |-> kind, folder |-> folder]

\* readme_path.exists()
ReadmeExists(p) == fs_readme[p].exists

\* a discovery that queues every directory it visits
NeedsReadmeAlways(p) == TRUE

\* discovery: the directory is queued unless it holds README.md
NeedsReadme(p) == ~ReadmeExists(p)

\* a walk that does not descend below a directory it skips
SubdirsPruned(p) == IF ReadmeExists(p) THEN {} ELSE Children(p)

\* os.walk: every subdirectory of a yielded directory is walked
Subdirs(p) == Children(p)

\* what folder_path.iterdir() yields
EntrySet(p) ==
    {[name |-> f, kind |-> "file"] : f \in StaticFiles(p)}
    \cup (IF ReadmeExists(p) THEN {[name |-> n_README, kind |-> "file"]} ELSE {})
    \cup {[name |-> Name(d), kind |-> "dir"] : d \in Children(p)}

\* stable insertion of p into a list ordered by depth
RECURSIVE InsertByDepth(_, _)
InsertByDepth(sorted, p) ==
    IF sorted = <<>> THEN <<p>>
    ELSE IF Depth(sorted[Len(sorted)]) <= Depth(p) THEN Append(sorted, p)
    ELSE Append(InsertByDepth(SubSeq(sorted, 1, Len(sorted) - 1), p), sorted[Len(sorted)])

RECURSIVE SortFrom(_, _, _)
SortFrom(list, i, acc) ==
    IF i > Len(list) THEN acc
    ELSE SortFrom(list, i + 1, InsertByDepth(acc, list[i]))

\* the same insertion with the comparison turned round: deepest first
RECURSIVE InsertByDepthDesc(_, _)
InsertByDepthDesc(sorted, p) ==
    IF sorted = <<>> THEN <<p>>
    ELSE IF Depth(sorted[Len(sorted)]) >= Depth(p) THEN Append(sorted, p)
    ELSE Append(InsertByDepthDesc(SubSeq(sorted, 1, Len(sorted) - 1), p), sorted[Len(sorted)])

RECURSIVE SortDescFrom(_, _, _)
SortDescFrom(list, i, acc) ==
    IF i > Len(list) THEN acc
    ELSE SortDescFrom(list, i + 1, InsertByDepthDesc(acc, list[i]))

SortByDepthDescending(list) == SortDescFrom(list, 1, <<>>)

\* sorted(folders_to_process, key=lambda p: len(p.parts)), a stable sort
SortByDepth(list) == SortFrom(list, 1, <<>>)

\* a parent check that never finds the parent's README.md
ParentInfoNever(folder_path) == NoParent

\* main(): parent_info of a queued folder
ParentInfo(folder_path) ==
    IF Parent(folder_path) # src_path /\ Parent(folder_path) # project_root
    THEN IF ReadmeExists(Parent(folder_path))
         THEN ParentNamed(Name(Parent(folder_path)))
         ELSE NoParent
    ELSE NoParent

\* readme_path.write_text(content), when it succeeds
WriteText(p, content) == [fs_readme EXCEPT ![p] = File(content)]

\* the number the final summary prints
SummaryCount == Len(folders_to_process)

(***************************************************************************)
(* main: steps                                                             *)
(***************************************************************************)
Init ==
    /\ rootExists \in BOOLEAN
    /\ fs_readme \in [Dirs -> {NoFile, PreExisting}]
    /\ rootExists = FALSE => fs_readme = [d \in Dirs |-> NoFile]
    /\ run = 1
    /\ pc = "start"
    /\ stack = <<>>
    /\ folders_to_process = <<>>
    /\ queue = <<>>
    /\ idx = 1
    /\ log = <<>>
    /\ faults = 0
    /\ readme0 = fs_readme
    /\ prevExit = "none"
    /\ trace = <<>>
    /\ analysis = [d \in Dirs |-> NoAnalysis]
    /\ opened = {}

\* lines 147-149: src_path does not exist
RootMissing ==
    /\ pc = "start"
    /\ ~rootExists
    /\ log' = Append(log, Line("error", src_path, 0))
    /\ pc' = "done"
    /\ UNCHANGED <<rootExists, fs_readme, run, stack, folders_to_process, queue, idx,
                   faults, readme0, prevExit, trace, analysis, opened>>

\* lines 151-155: the walk starts at src_path
StartWalk ==
    /\ pc = "start"
    /\ rootExists
    /\ log' = Append(log, Line("generating", src_path, 0))
    /\ stack' = <<src_path>>
    /\ folders_to_process' = <<>>
    /\ pc' = "walk"
    /\ UNCHANGED <<rootExists, fs_readme, run, queue, idx, faults, readme0, prevExit,
                   trace, analysis, opened>>

\* os.walk yields the next directory; its subdirectories follow, in the
\* order the directory listing gives them
WalkStep(skip) ==
    /\ pc = "walk"
    /\ stack # <<>>
    /\ LET root_path == Head(stack) IN
       /\ skip = ~NeedsReadme(root_path)
       /\ \E order \in Perms(Subdirs(root_path)) : stack' = order \o Tail(stack)
       /\ IF skip
          THEN /\ log' = Append(log, Line("exists", root_path, 0))
               /\ UNCHANGED folders_to_process
          ELSE /\ folders_to_process' = Append(folders_to_process, root_path)
               /\ UNCHANGED log
    /\ UNCHANGED <<rootExists, fs_readme, run, pc, queue, idx, faults, readme0, prevExit,
                   trace, analysis, opened>>

\* lines 158-162: README.md exists, the directory is skipped
WalkSkip ==
    /\ pc = "walk"
    /\ WalkStep(TRUE)

\* line 165: the directory is queued
WalkQueue ==
    /\ pc = "walk"
    /\ WalkStep(FALSE)

\* lines 167-170: the walk is over, the list is sorted
WalkDone ==
    /\ pc = "walk"
    /\ stack = <<>>
    /\ log' = Append(log, Line("found", <<>>, Len(folders_to_process)))
    /\ queue' = SortByDepth(folders_to_process)
    /\ idx' = 1
    /\ pc' = "generate"
    /\ UNCHANGED <<rootExists, fs_readme, run, stack, folders_to_process, faults,
                   readme0, prevExit, trace, analysis, opened>>

\* lines 171-187, one iteration of the loop; written is whether write_text
\* succeeds
Process(written) ==
    /\ pc = "generate"
    /\ idx <= Len(queue)
    /\ LET folder_path == queue[idx] IN
       \E entries \in Perms(EntrySet(folder_path)) :
       \E badReads \in SUBSET OpenedFiles(entries) :
          LET folder_info == AnalyzeFolder(folder_path, entries, badReads)
              parent_info == ParentInfo(folder_path)
              content == GenerateReadmeContent(folder_info, parent_info)
          IN /\ badReads # {} => faults < MaxFaults
             /\ analysis' = [analysis EXCEPT ![folder_path] =
                               [done |-> TRUE, files |-> Range(folder_info.files),
                                line_counts |-> folder_info.line_counts]]
             /\ opened' = opened \cup {Append(folder_path, f) : f \in OpenedFiles(entries)}
             /\ IF written
                THEN /\ fs_readme' = WriteText(folder_path, content)
                     /\ log' = Append(log, Line("created", Append(folder_path, n_README), 0))
                     /\ trace' = trace \o <<Event("analyze", folder_path),
                                            Event("parent_check", folder_path),
                                            Event("write_ok", folder_path)>>
                     /\ faults' = faults + (IF badReads # {} THEN 1 ELSE 0)
                ELSE /\ faults + (IF badReads # {} THEN 1 ELSE 0) < MaxFaults
                     /\ UNCHANGED fs_readme
                     /\ log' = Append(log, Line("failed", Append(folder_path, n_README), 0))
                     /\ trace' = trace \o <<Event("analyze", folder_path),
                                            Event("parent_check", folder_path),
                                            Event("write_fail", folder_path)>>
                     /\ faults' = faults + 1 + (IF badReads # {} THEN 1 ELSE 0)
    /\ idx' = idx + 1
    /\ UNCHANGED <<rootExists, run, pc, stack, folders_to_process, queue, readme0,
                   prevExit>>

\* lines 186-187
ProcessCreated ==
    /\ pc = "generate"
    /\ Process(TRUE)

\* lines 188-189: write_text raises, the handler prints and the loop goes on
ProcessWriteFailed ==
    /\ pc = "generate"
    /\ Process(FALSE)

\* line 171: folder_path.iterdir() or is_file() raises in analyze_folder;
\* nothing in main() catches it
ProcessAnalyzeRaises ==
    /\ pc = "generate"
    /\ idx <= Len(queue)
    /\ faults < MaxFaults
    /\ faults' = faults + 1
    /\ trace' = Append(trace, Event("analyze_raises", queue[idx]))
    /\ pc' = "raised"
    /\ UNCHANGED <<rootExists, fs_readme, run, stack, folders_to_process, queue, idx,
                   log, readme0, prevExit, analysis, opened>>

\* lines 191-196: the loop is over
Summary ==
    /\ pc = "generate"
    /\ idx > Len(queue)
    /\ log' = Append(log, Line("done", <<>>, SummaryCount))
    /\ pc' = "done"
    /\ UNCHANGED <<rootExists, fs_readme, run, stack, folders_to_process, queue, idx,
                   faults, readme0, prevExit, trace, analysis, opened>>

\* main() is run again on the tree the last run left
NextRun ==
    /\ pc \in {"done", "raised"}
    /\ run < MaxRuns
    /\ run' = run + 1
    /\ pc' = "start"
    /\ stack' = <<>>
    /\ folders_to_process' = <<>>
    /\ queue' = <<>>
    /\ idx' = 1
    /\ log' = <<>>
    /\ readme0' = fs_readme
    /\ prevExit' = pc
    /\ trace' = <<>>
    /\ analysis' = [d \in Dirs |-> NoAnalysis]
    /\ opened' = {}
    /\ UNCHANGED <<rootExists, fs_readme, faults>>

Next ==
    \/ RootMissing
    \/ StartWalk
    \/ WalkSkip
    \/ WalkQueue
    \/ WalkDone
    \/ ProcessCreated
    \/ ProcessWriteFailed
    \/ ProcessAnalyzeRaises
    \/ Summary
    \/ NextRun

Spec == Init /\ [][Next]_vars

(***************************************************************************)
(* Reading the state                                                       *)
(***************************************************************************)
DocLines(d) == Range(SplitLines(fs_readme[d].text))
FirstLine(d) == SplitLines(fs_readme[d].text)[1]

\* positions of the history where the loop did `kind` for folder d
At(kind, d) == {i \in 1..Len(trace) : trace[i] = Event(kind, d)}
WriteAt(d) == At("write_ok", d) \cup At("write_fail", d)

Created == {d \in Dirs : At("write_ok", d) # {}}
Failed == {d \in Dirs : At("write_fail", d) # {}}
RunOver == pc \in {"done", "raised"}
Discovered == pc \in {"generate", "done", "raised"} /\ rootExists

IsLinkLine(l) == l # <<>> /\ l[1] = "- See [U+0060]../README.md[U+0060] for "

\* the purpose the folder name, exactly as spelled, has in the table
ExactPurpose(name) ==
    IF name \in PurposeKeys THEN purpose_map(name) ELSE Title(name) \o <<" Module">>

(***************************************************************************)
(* C1.  A folder that holds README.md when the run discovers it is skipped: *)
(* it is never queued, analyzed or written, its README.md is never opened   *)
(* for reading, and the file is the same at every later point of the run,   *)
(* whatever happens to the other folders.                                   *)
(***************************************************************************)
C1_ExistingReadmeUntouched ==
    \A d \in Dirs :
        readme0[d].exists =>
            /\ fs_readme[d] = readme0[d]
            /\ d \notin Range(folders_to_process)
            /\ d \notin Range(queue)
            /\ \A i \in 1..Len(trace) : trace[i].folder # d
            /\ Append(d, n_README) \notin opened
            /\ Discovered => Line("exists", d, 0) \in Range(log)

C1_Witness ==
    /\ pc = "done"
    /\ \E d \in Dirs : readme0[d].exists
    /\ Created # {}
    /\ Failed # {}

C3_SecondRunQueuesNothing ==
    (run >= 2 /\ prevExit = "done" /\ Discovered) =>
        /\ \A d \in Dirs : readme0[d].exists
        /\ folders_to_process = <<>>
        /\ fs_readme = readme0

(***************************************************************************)
(* C3, amended.  A second run skips every folder the first run left with    *)
(* README.md and never changes those files; it queues exactly the folders   *)
(* the first run left without README.md.  When the first run left           *)
(* README.md in every folder, the second run queues nothing, writes         *)
(* nothing and leaves the tree unchanged.                                   *)
(***************************************************************************)
C3_SecondRunSkipsWhatExists ==
    (run >= 2 /\ Discovered) =>
        /\ Range(folders_to_process) = {d \in Dirs : ~readme0[d].exists}
        /\ \A d \in Dirs : readme0[d].exists => fs_readme[d] = readme0[d]
        /\ (\A d \in Dirs : readme0[d].exists) =>
              /\ folders_to_process = <<>>
              /\ trace = <<>>
              /\ fs_readme = readme0

C3_Witness ==
    /\ run = 2
    /\ prevExit = "done"
    /\ pc = "done"
    /\ rootExists
    /\ \A d \in Dirs : readme0[d].exists
    /\ \E d \in Dirs : readme0[d] # PreExisting
    /\ folders_to_process = <<>>
    /\ fs_readme = readme0

(***************************************************************************)
(* C4.  As claimed: a folder created after its parent was created in the    *)
(* same run links to the parent, children of the scanned root included.     *)
(***************************************************************************)
C4_ChildOfCreatedParentLinked ==
    \A c \in Created :
        (Parent(c) \in Dirs /\ Parent(c) \in Created) =>
            RelatedLink(Name(Parent(c))) \in DocLines(c)

(***************************************************************************)
(* C4, amended.  A folder created after its parent was created in the same  *)
(* run links to the parent, unless the parent is the scanned root: the      *)
(* document of a child of the root never has the link.                      *)
(***************************************************************************)
C4_ChildLinkedExceptUnderRoot ==
    \A c \in Created :
        /\ (Parent(c) \in Dirs /\ Parent(c) # src_path /\ Parent(c) \in Created) =>
              /\ RelatedLink(Name(Parent(c))) \in DocLines(c)
              /\ \A i \in At("write_ok", Parent(c)) : \A j \in At("parent_check", c) : i < j
        /\ Parent(c) = src_path => \A l \in DocLines(c) : ~IsLinkLine(l)

C4_Witness ==
    /\ src_path \in Created
    /\ src_path \o <<n_agent>> \in Created
    /\ src_path \o <<n_agent, n_Tools>> \in Created
    /\ RelatedLink(n_agent) \in DocLines(src_path \o <<n_agent, n_Tools>>)
    /\ RelatedLink(n_src) \notin DocLines(src_path \o <<n_agent>>)

(***************************************************************************)
(* C5.  As claimed: a folder created while its parent has no README.md gets *)
(* a document with neither the Related Documentation heading nor the link.  *)
(***************************************************************************)
ParentLacksReadme(d) == Parent(d) \in Dirs /\ ~fs_readme[Parent(d)].exists

C5_NoParentNoRelatedSection ==
    \A d \in Created :
        ParentLacksReadme(d) =>
            /\ RelatedHeading \notin DocLines(d)
            /\ \A l \in DocLines(d) : ~IsLinkLine(l)

(***************************************************************************)
(* C5, amended.  A folder created while its parent has no README.md gets a  *)
(* document without the link line; the Related Documentation heading is     *)
(* still there, followed directly by the closing notice.                    *)
(***************************************************************************)
C5_NoParentNoLinkLine ==
    \A d \in Created :
        ParentLacksReadme(d) =>
            LET lines == SplitLines(fs_readme[d].text) IN
            /\ \A l \in Range(lines) : ~IsLinkLine(l)
            /\ \E i \in 1..Len(lines) - 1 :
                  /\ lines[i] = RelatedHeading
                  /\ lines[i + 1] = <<>>

C5_Witness ==
    /\ src_path \o <<n_agent, n_Tools>> \in Created
    /\ src_path \o <<n_agent>> \in Failed
    /\ RelatedHeading \in DocLines(src_path \o <<n_agent, n_Tools>>)

(***************************************************************************)
(* C6.  As claimed: a failed write is logged with the folder's README path, *)
(* leaves the folder without README.md, and the run still gives every later *)
(* folder of the queue its write attempt and reaches the final summary.     *)
(***************************************************************************)
C6_WriteFailureDoesNotAbort ==
    \A d \in Failed :
        /\ Line("failed", Append(d, n_README), 0) \in Range(log)
        /\ ~fs_readme[d].exists
        /\ RunOver =>
              /\ pc = "done"
              /\ \A k \in 1..Len(queue) : WriteAt(queue[k]) # {}
              /\ \E i \in 1..Len(log) : log[i].kind = "done"

(***************************************************************************)
(* C7.  As claimed: a failure of the Analyzer to enumerate a queued folder  *)
(* never leaves main() as an exception.                                     *)
(***************************************************************************)
C7_AnalyzerFailureIsNotFatal ==
    \A i \in 1..Len(trace) :
        trace[i].kind = "analyze_raises" => pc # "raised"

(***************************************************************************)
(* C8.  As claimed: a created document has the Key Files heading exactly    *)
(* when the folder has a file; a file with a line-counted suffix is listed  *)
(* with its count, a file of the other tracked suffixes with the            *)
(* placeholder, and any other file is not listed.                           *)
(***************************************************************************)
C8_KeyFilesRule ==
    \A d \in Created :
        LET a == analysis[d]
            lines == DocLines(d)
        IN /\ (KeyFilesHeading \in lines) <=> (a.files # {})
           /\ \A f \in a.files :
                 IF CountedSuffix(f)
                 THEN CountedLine(f, a.line_counts[f]) \in lines
                 ELSE IF Suffix(f) \in {s_js, s_jsx, s_json, s_md}
                 THEN PlaceholderLine(f) \in lines
                 ELSE PlaceholderLine(f) \notin lines

(***************************************************************************)
(* C9.  The queue is in non-decreasing depth, and whenever the loop         *)
(* analyzes a folder, checks its parent or writes it, every queued ancestor *)
(* of the folder has had its write attempt before.                          *)
(***************************************************************************)
C9_ShallowestFirst ==
    /\ \A i, j \in 1..Len(queue) : i < j => Depth(queue[i]) <= Depth(queue[j])
    /\ Discovered => Range(queue) = Range(folders_to_process)
    /\ \A j \in 1..Len(trace) :
          \A a \in Range(folders_to_process) :
              IsAncestor(a, trace[j].folder) =>
                  \E i \in 1..(j - 1) :
                      /\ trace[i].folder = a
                      /\ trace[i].kind \in {"write_ok", "write_fail"}

C9_Witness ==
    /\ pc = "done"
    /\ queue # folders_to_process
    /\ {src_path, src_path \o <<n_agent>>, src_path \o <<n_agent, n_Tools>>}
          \subseteq (Created \cup Failed)

(***************************************************************************)
(* C10.  As claimed: the number the final summary prints is the number of   *)
(* README.md files the run created.                                         *)
(***************************************************************************)
C10_SummaryCountsCreated ==
    \A i \in 1..Len(log) :
        log[i].kind = "done" => log[i].n = Cardinality(Created)

====
